---- MODULE Spec2Model ----
(***************************************************************************)
(* Label remapping engine of gala/imio.py: serial_section_map,             *)
(* raveler_serial_section_map, segs_to_raveler, apply_segmentation_map     *)
(* and the decoding part of raveler_to_labeled_volume.                     *)
(*                                                                         *)
(* A label volume nd_map[z][<<r, c>>] is indexed by plane z and by the     *)
(* position <<r, c>> inside the plane.  The volumes have the shape Shape:  *)
(* two planes of one row and two columns, the smallest shape that has the  *)
(* voxels [:, 0, 0] and [:, 0, 1] the code addresses and a plane with a    *)
(* start id other than 0.                                                  *)
(***************************************************************************)
EXTENDS Integers, Sequences, FiniteSets, TLC

VARIABLES
    pc,                   \* position of the caller
    nd_map,               \* argument of (raveler_)serial_section_map
    min_size,             \* argument min_size
    do_conn_comp,         \* argument do_conn_comp
    globally_unique_ids,  \* argument globally_unique_ids
    relabeled,            \* value returned by (raveler_)serial_section_map
    again,                \* value returned for the returned volume
    plane_results,        \* per plane, the relabeled plane and its number of
                          \* ids once a worker has produced them
    sps,                  \* argument sps of segs_to_raveler
    bodies,               \* argument bodies of segs_to_raveler
    raveler,              \* triple returned by segs_to_raveler
    output_volume,        \* outcome of raveler_to_labeled_volume
    superpixels,          \* argument superpixels of apply_segmentation_map
    sp_to_body_map,       \* argument sp_to_body_map of apply_segmentation_map
    segmentation          \* outcome of apply_segmentation_map

vars == <<pc, nd_map, min_size, do_conn_comp, globally_unique_ids, relabeled,
          again, plane_results, sps, bodies, raveler, output_volume, superpixels,
          sp_to_body_map, segmentation>>

relabelVars == <<nd_map, min_size, do_conn_comp, globally_unique_ids,
                 relabeled, again, plane_results>>
buildVars == <<sps, bodies, raveler, output_volume>>
applyVars == <<superpixels, sp_to_body_map, segmentation>>

(***************************************************************************)
(* Bounds of the inputs.                                                   *)
(***************************************************************************)
Shape == <<2, 1, 2>>
MaxLabel == 2
MaxBody == 1
MaxMinSize == 2
MaxRows == 2

None == "None"

PlaneIds == 0 .. (Shape[1] - 1)
Rows == 0 .. (Shape[2] - 1)
Cols == 0 .. (Shape[3] - 1)
Pos == Rows \X Cols
Corner == <<0, 0>>
NextToCorner == <<0, 1>>

Volumes(maxId) == [PlaneIds -> [Pos -> 0 .. maxId]]

(***************************************************************************)
(* Helpers: raster order of the positions, sums, sorted distinct rows.     *)
(***************************************************************************)
RasterIndex(p) == p[1] * Shape[3] + p[2]

Before(p, q) == RasterIndex(p) < RasterIndex(q)

Values(a) == {a[p] : p \in DOMAIN a}

Max(S) == CHOOSE x \in S : \A y \in S : y <= x

Min(S) == CHOOSE x \in S : \A y \in S : x <= y

RECURSIVE LexLess(_, _)
LexLess(s, t) ==
    IF s = <<>> \/ t = <<>> THEN FALSE
    ELSE IF Head(s) # Head(t) THEN Head(s) < Head(t)
    ELSE LexLess(Tail(s), Tail(t))

\* numpy.unique over the rows of a table: the distinct rows, sorted
RECURSIVE unique(_)
unique(S) ==
    IF S = {} THEN <<>>
    ELSE LET least == CHOOSE s \in S : \A t \in S : t = s \/ LexLess(s, t)
         IN <<least>> \o unique(S \ {least})

(***************************************************************************)
(* Connected components inside a plane (no diagonal neighbours).           *)
(***************************************************************************)
Adjacent(p, q) ==
    \/ p[1] = q[1] /\ (p[2] = q[2] + 1 \/ q[2] = p[2] + 1)
    \/ p[2] = q[2] /\ (p[1] = q[1] + 1 \/ q[1] = p[1] + 1)

\* the positions reached from S through adjacent positions of one class,
\* where class[p] is the class of position p
RECURSIVE Grow(_, _)
Grow(S, class) ==
    LET more == {q \in (DOMAIN class) \ S :
                    \E p \in S : Adjacent(p, q) /\ class[p] = class[q]}
    IN IF more = {} THEN S ELSE Grow(S \cup more, class)

\* morpho.remove_small_connected_components(a, min_size, False): a copy of
\* the plane where every connected component of one id that has fewer than
\* min_size voxels is 0
remove_small_connected_components(a, size) ==
    LET Component(p) == Grow({p}, a)
    IN [p \in DOMAIN a |->
            IF a[p] # 0 /\ Cardinality(Component(p)) < size THEN 0 ELSE a[p]]

\* scipy.ndimage.label(a): the connected components of the nonzero voxels,
\* numbered from 1 in raster order, and their number
label(a) ==
    LET fg == {p \in DOMAIN a : a[p] # 0}
        mask == [p \in DOMAIN a |-> a[p] # 0]
        Component(p) == Grow({p}, mask)
        First(p) == CHOOSE q \in Component(p) :
                        \A r \in Component(p) : r = q \/ Before(q, r)
        firsts == {First(p) : p \in fg}
        Number(p) == Cardinality({f \in firsts : Before(f, First(p))}) + 1
    IN <<[p \in DOMAIN a |-> IF a[p] = 0 THEN 0 ELSE Number(p)],
         Cardinality(firsts)>>

\* evaluate.relabel_from_one(a) followed by len(imap): the distinct nonzero
\* ids of the plane compacted to 1..n in the order of their first
\* appearance, and the number n of ids produced
relabel_from_one(a) ==
    LET ids == Values(a) \ {0}
        First(v) == CHOOSE q \in DOMAIN a :
                        a[q] = v /\ \A r \in DOMAIN a : a[r] = v => (r = q \/ Before(q, r))
        Number(v) == Cardinality({w \in ids : Before(First(w), First(v))}) + 1
    IN <<[p \in DOMAIN a |-> IF a[p] = 0 THEN 0 ELSE Number(a[p])],
         Cardinality(ids)>>

(***************************************************************************)
(* serial_section_map and raveler_serial_section_map.                      *)
(***************************************************************************)
\* label_fct: scipy's label when do_conn_comp, else relabel_from_one with
\* the length of its inverse map
label_fct(conn, a) == IF conn THEN label(a) ELSE relabel_from_one(a)

remove_small(a, size) == remove_small_connected_components(a, size)

RECURSIVE cumsum(_, _)
cumsum(nids, z) == IF z < 0 THEN 0 ELSE nids[z] + cumsum(nids, z - 1)

\* concatenate(([0], cumsum(nids_per_plane)[:-1])), or zeros
start_ids(nids_per_plane, unique_ids) ==
    [z \in DOMAIN nids_per_plane |->
        IF unique_ids THEN cumsum(nids_per_plane, z - 1) ELSE 0]

\* a slip of the sign: relabeled_plane - start_id
SubtractStartId(relabeled_plane, start_id) ==
    [p \in DOMAIN relabeled_plane |-> relabeled_plane[p] - start_id]

\* relabeled_plane + start_id
AddStartId(relabeled_plane, start_id) ==
    [p \in DOMAIN relabeled_plane |-> relabeled_plane[p] + start_id]

serial_section_map(m, size, conn, unique_ids) ==
    LET mplanes == [z \in DOMAIN m |-> remove_small(m[z], size)]
        labelled == [z \in DOMAIN m |-> label_fct(conn, mplanes[z])]
        relabeled_planes == [z \in DOMAIN m |-> labelled[z][1]]
        nids_per_plane == [z \in DOMAIN m |-> labelled[z][2]]
        starts == start_ids(nids_per_plane, unique_ids)
    IN [z \in DOMAIN m |-> AddStartId(relabeled_planes[z], starts[z])]

HasZero(m) == \E z \in DOMAIN m : \E p \in DOMAIN m[z] : m[z][p] = 0

\* nd_map[:, 0, 0] = 0
ZeroCorners(m) ==
    [z \in DOMAIN m |-> [p \in DOMAIN m[z] |-> IF p = Corner THEN 0 ELSE m[z][p]]]

\* a slip: the test for a volume without 0 is made on the argument
raveler_serial_section_map_TestsArgument(m, size, conn, unique_ids) ==
    LET out == serial_section_map(m, size, conn, unique_ids)
    IN IF ~HasZero(m) THEN ZeroCorners(out) ELSE out

raveler_serial_section_map(m, size, conn, unique_ids) ==
    LET out == serial_section_map(m, size, conn, unique_ids)
    IN IF ~HasZero(out) THEN ZeroCorners(out) ELSE out

(***************************************************************************)
(* Calls of the relabelers: one call on an input volume, and a second call *)
(* of serial_section_map on the volume the first one returned.             *)
(***************************************************************************)
InitRelabel ==
    /\ pc = "init"
    /\ nd_map \in Volumes(MaxLabel)
    /\ min_size \in 0 .. MaxMinSize
    /\ do_conn_comp \in BOOLEAN
    /\ globally_unique_ids \in BOOLEAN
    /\ relabeled = None
    /\ again = None
    /\ plane_results = None
    /\ sps = None /\ bodies = None /\ raveler = None /\ output_volume = None
    /\ superpixels = None /\ sp_to_body_map = None /\ segmentation = None

CallSerialSectionMap ==
    /\ pc = "init"
    /\ relabeled' = serial_section_map(nd_map, min_size, do_conn_comp,
                                       globally_unique_ids)
    /\ pc' = "relabeled"
    /\ UNCHANGED <<nd_map, min_size, do_conn_comp, globally_unique_ids, again,
                   plane_results>>
    /\ UNCHANGED <<buildVars, applyVars>>

CallSerialSectionMapAgain ==
    /\ pc = "relabeled"
    /\ again' = serial_section_map(relabeled, min_size, do_conn_comp,
                                   globally_unique_ids)
    /\ pc' = "again"
    /\ UNCHANGED <<nd_map, min_size, do_conn_comp, globally_unique_ids, relabeled,
                   plane_results>>
    /\ UNCHANGED <<buildVars, applyVars>>

CallRavelerSerialSectionMap ==
    /\ pc = "init"
    /\ relabeled' = raveler_serial_section_map(nd_map, min_size, do_conn_comp,
                                               globally_unique_ids)
    /\ pc' = "raveler"
    /\ UNCHANGED <<nd_map, min_size, do_conn_comp, globally_unique_ids, again,
                   plane_results>>
    /\ UNCHANGED <<buildVars, applyVars>>

NextRelabel ==
    \/ CallSerialSectionMap
    \/ CallSerialSectionMapAgain
    \/ CallRavelerSerialSectionMap

SpecRelabel == InitRelabel /\ [][NextRelabel]_vars

(***************************************************************************)
(* segs_to_raveler.                                                        *)
(***************************************************************************)
RECURSIVE Concat(_, _)
Concat(tables, z) ==
    IF z \notin DOMAIN tables THEN <<>> ELSE tables[z] \o Concat(tables, z + 1)

NonZeroSegment(row) == row[1] # 0

\* a slip: the rows of segment 0 are kept
segment_to_body_of_Unfiltered(segment_map, body_map) ==
    LET pairs == {<<segment_map[z][p], body_map[z][p]>> :
                        z \in DOMAIN segment_map, p \in Pos}
    IN <<<<0, 0>>>> \o unique(pairs)

\* unique(zip(segment_map.ravel(), bodies.ravel())), without the rows of
\* segment 0, after the row [0, 0]
segment_to_body_of(segment_map, body_map) ==
    LET pairs == {<<segment_map[z][p], body_map[z][p]>> :
                        z \in DOMAIN segment_map, p \in Pos}
    IN <<<<0, 0>>>> \o SelectSeq(unique(pairs), NonZeroSegment)

\* a slip: the segment plane is left as it is
MaskSegments_Skipped(segment_map_i, sp_map_i) == segment_map_i

\* segment_map_i *= sp_map_i.astype(bool)
MaskSegments(segment_map_i, sp_map_i) ==
    [p \in DOMAIN segment_map_i |->
        IF sp_map_i[p] # 0 THEN segment_map_i[p] ELSE 0]

\* a slip: valid is computed before the segment plane is masked
sp_to_segment_of_ValidBeforeMask(i, sp_map_i, segment_map_i) ==
    LET masked == MaskSegments(segment_map_i, sp_map_i)
        valid == {p \in DOMAIN sp_map_i : sp_map_i[p] # 0 \/ segment_map_i[p] = 0}
    IN unique({<<i, sp_map_i[p], masked[p]>> : p \in valid})

\* the rows of plane i: unique(zip(repeat(i), sp_map_i[valid], segment_map_i[valid]))
sp_to_segment_of(i, sp_map_i, segment_map_i) ==
    LET masked == MaskSegments(segment_map_i, sp_map_i)
        valid == {p \in DOMAIN sp_map_i : sp_map_i[p] # 0 \/ masked[p] = 0}
    IN unique({<<i, sp_map_i[p], masked[p]>> : p \in valid})

segs_to_raveler(sp_map, body_map, size, conn, sps_out) ==
    LET out == IF sps_out = None
               THEN raveler_serial_section_map(sp_map, size, conn, FALSE)
               ELSE sps_out
        segment_map == raveler_serial_section_map(body_map, size, conn, TRUE)
        tables == [i \in DOMAIN out |-> sp_to_segment_of(i, out[i], segment_map[i])]
    IN [superpixels |-> out,
        sp_to_segment |-> Concat(tables, 0),
        segment_to_body |-> segment_to_body_of(segment_map, body_map)]

(***************************************************************************)
(* apply_segmentation_map and raveler_to_labeled_volume.  An outcome is    *)
(* the exception raised, or "none" and the value returned.                 *)
(***************************************************************************)
Outcome(e, v) == [error |-> e, value |-> v]

Column(table, k) == {table[i][k] : i \in DOMAIN table}

\* forward_map = zeros(size); forward_map[key] = value for the rows in
\* order: of the rows (given by their indices) that write one index, the
\* last one stays, and an index without row keeps 0
Scatter(table, rows, k) ==
    IF rows = {} THEN 0 ELSE table[Max(rows)][k]

apply_segmentation_map(labels, map) ==
    IF map = <<>> THEN Outcome("ValueError", None)
    ELSE LET size == Max(Column(map, 1)) + 1
             forward_map(x) ==
                 Scatter(map, {i \in DOMAIN map : map[i][1] = x}, 2)
         IN IF \E p \in DOMAIN labels : labels[p] >= size
            THEN Outcome("IndexError", None)
            ELSE Outcome("none", [p \in DOMAIN labels |-> forward_map(labels[p])])

\* a slip: the corners are repaired whenever all of them are 0
RepairCorners_AnyZeros(vol) ==
    IF \A z \in DOMAIN vol : vol[z][Corner] = 0
    THEN [z \in DOMAIN vol |->
            [p \in DOMAIN vol[z] |->
                IF p = Corner THEN vol[z][NextToCorner] ELSE vol[z][p]]]
    ELSE vol

\* output_volume[:, 0, 0] = output_volume[:, 0, 1] when the corners are the
\* only zeros of the volume
RepairCorners(vol) ==
    LET zeros == {<<z, p>> \in (DOMAIN vol) \X Pos : vol[z][p] = 0}
    IN IF /\ \A z \in DOMAIN vol : vol[z][Corner] = 0
          /\ Cardinality(zeros) = Cardinality(DOMAIN vol)
       THEN [z \in DOMAIN vol |->
                [p \in DOMAIN vol[z] |->
                    IF p = Corner THEN vol[z][NextToCorner] ELSE vol[z][p]]]
       ELSE vol

\* initial_output_volume of raveler_to_labeled_volume: the superpixel stack
\* decoded plane by plane with the two tables of an export
initial_output_volume(spmap, sp2seg_list, seg2bod_list) ==
    IF sp2seg_list = <<>> \/ seg2bod_list = <<>> THEN Outcome("ValueError", None)
    ELSE
    LET max_sp == Max(Column(sp2seg_list, 2))
        start_plane == Min(Column(sp2seg_list, 1))
        planes == Column(sp2seg_list, 1)
        sp2seg(z, sp) ==
            Scatter(sp2seg_list,
                    {i \in DOMAIN sp2seg_list :
                        sp2seg_list[i][1] = z /\ sp2seg_list[i][2] = sp}, 3)
        max_seg == Max(Column(seg2bod_list, 1))
        seg2bod(seg) ==
            Scatter(seg2bod_list,
                    {i \in DOMAIN seg2bod_list : seg2bod_list[i][1] = seg}, 2)
    IN IF \E i \in DOMAIN spmap : start_plane + i \notin planes
       THEN Outcome("KeyError", None)
       ELSE IF \E i \in DOMAIN spmap : \E p \in Pos :
                    \/ spmap[i][p] > max_sp
                    \/ sp2seg(start_plane + i, spmap[i][p]) > max_seg
       THEN Outcome("IndexError", None)
       ELSE Outcome("none",
                [i \in DOMAIN spmap |-> [p \in Pos |->
                    seg2bod(sp2seg(start_plane + i, spmap[i][p]))]])

\* raveler_to_labeled_volume without watershed and without glia, on the
\* superpixel stack and the two tables of an export
raveler_to_labeled_volume(spmap, sp2seg_list, seg2bod_list) ==
    LET decoded == initial_output_volume(spmap, sp2seg_list, seg2bod_list)
    IN IF decoded.error # "none" THEN decoded
       ELSE Outcome("none", RepairCorners(decoded.value))

(***************************************************************************)
(* Export of a superpixel volume and a body volume, then import of the     *)
(* exported triple.                                                        *)
(***************************************************************************)
InitBuild ==
    /\ pc = "init"
    /\ sps \in Volumes(MaxLabel)
    /\ bodies \in Volumes(MaxBody)
    /\ min_size \in {0, MaxMinSize}
    /\ do_conn_comp \in BOOLEAN
    /\ raveler = None
    /\ output_volume = None
    /\ nd_map = None /\ globally_unique_ids = None
    /\ relabeled = None /\ again = None /\ plane_results = None
    /\ superpixels = None /\ sp_to_body_map = None /\ segmentation = None

CallSegsToRaveler ==
    /\ pc = "init"
    /\ raveler' = segs_to_raveler(sps, bodies, min_size, do_conn_comp, None)
    /\ pc' = "exported"
    /\ UNCHANGED <<sps, bodies, output_volume>>
    /\ UNCHANGED <<relabelVars, applyVars>>

CallRavelerToLabeledVolume ==
    /\ pc = "exported"
    /\ output_volume' = raveler_to_labeled_volume(raveler.superpixels,
                            raveler.sp_to_segment, raveler.segment_to_body)
    /\ pc' = "imported"
    /\ UNCHANGED <<sps, bodies, raveler>>
    /\ UNCHANGED <<relabelVars, applyVars>>

NextBuild ==
    \/ CallSegsToRaveler
    \/ CallRavelerToLabeledVolume

SpecBuild == InitBuild /\ [][NextBuild]_vars

(***************************************************************************)
(* Decoding of a label array with a table of (superpixel, body) rows.      *)
(***************************************************************************)
Tables == UNION {[1 .. n -> (0 .. MaxLabel) \X (0 .. MaxLabel)] : n \in 0 .. MaxRows}

LabelArrays == [Pos -> 0 .. (MaxLabel + 1)]

ExampleMap == <<<<1, 5>>, <<2, 7>>>>

ExampleLabels == <<1, 2, 3>>

InitApply ==
    /\ pc = "init"
    /\ \E call \in (LabelArrays \X Tables) \cup {<<ExampleLabels, ExampleMap>>} :
            /\ superpixels = call[1]
            /\ sp_to_body_map = call[2]
    /\ segmentation = None
    /\ nd_map = None /\ min_size = None /\ do_conn_comp = None
    /\ globally_unique_ids = None /\ relabeled = None /\ again = None
    /\ plane_results = None
    /\ sps = None /\ bodies = None /\ raveler = None /\ output_volume = None

CallApplySegmentationMap ==
    /\ pc = "init"
    /\ segmentation' = apply_segmentation_map(superpixels, sp_to_body_map)
    /\ pc' = "applied"
    /\ UNCHANGED <<superpixels, sp_to_body_map>>
    /\ UNCHANGED <<relabelVars, buildVars>>

NextApply == CallApplySegmentationMap

SpecApply == InitApply /\ [][NextApply]_vars

(***************************************************************************)
(* Properties of serial_section_map (SpecRelabel).                         *)
(***************************************************************************)
Voxels == PlaneIds \X Pos

Returned == pc \in {"relabeled", "again"}

NonZeroIds(plane) == Values(plane) \ {0}

\* the number of voxels of the connected component of one id that holds p
ComponentSize(a, p) ==
    Cardinality(Grow({p}, a))

\* C1: every voxel that is background (0) in the volume given to
\* serial_section_map is 0 in the volume it returns, whatever min_size,
\* do_conn_comp and globally_unique_ids are.
C1_BackgroundStaysZero ==
    Returned =>
        \A v \in Voxels : nd_map[v[1]][v[2]] = 0 => relabeled[v[1]][v[2]] = 0

C3_PlanesDisjoint ==
    (Returned /\ globally_unique_ids) =>
        \A P, Q \in PlaneIds :
            P # Q => NonZeroIds(relabeled[P]) \cap NonZeroIds(relabeled[Q]) = {}

\* C6: serial_section_map applied with the same parameters to the volume it
\* returned returns that volume, voxel for voxel.
C6_Idempotent == pc = "again" => again = relabeled

(***************************************************************************)
(* Properties of raveler_serial_section_map (SpecRelabel).                 *)
(***************************************************************************)
\* C7 as stated: in the volume raveler_serial_section_map returns, the
\* voxel [p, 0, 0] of every plane p is 0.
C7_Original ==
    pc = "raveler" => \A z \in PlaneIds : relabeled[z][Corner] = 0

\* C7 as amended: the volume raveler_serial_section_map returns holds a 0
\* somewhere; the voxel [p, 0, 0] of every plane p is 0 when the relabeled
\* volume holds no 0, and otherwise the relabeled volume is returned as is.
C7_ZeroSomewhere ==
    pc = "raveler" =>
        LET plain == serial_section_map(nd_map, min_size, do_conn_comp,
                                        globally_unique_ids)
        IN /\ \E v \in Voxels : relabeled[v[1]][v[2]] = 0
           /\ \A v \in Voxels : v[2] # Corner => relabeled[v[1]][v[2]] = plain[v[1]][v[2]]
           /\ IF \E v \in Voxels : plain[v[1]][v[2]] = 0
              THEN relabeled = plain
              ELSE \A z \in PlaneIds : relabeled[z][Corner] = 0

\* a call on a volume without background, where the corners were forced
C7_Witness ==
    /\ pc = "raveler"
    /\ \A v \in Voxels : nd_map[v[1]][v[2]] # 0
    /\ \A z \in PlaneIds : relabeled[z][Corner] = 0
    /\ \E v \in Voxels : relabeled[v[1]][v[2]] # 0

(***************************************************************************)
(* Properties of apply_segmentation_map (SpecApply).                       *)
(***************************************************************************)
\* C4: apply_segmentation_map raises no error and decodes to 0 every voxel
\* whose label has no row in the table, also when the label is larger than
\* every superpixel id of the table (the table has at least one row).
C4_UnmappedIsBackground ==
    (pc = "applied" /\ sp_to_body_map # <<>>) =>
        /\ segmentation.error = "none"
        /\ \A p \in DOMAIN superpixels :
                superpixels[p] \notin Column(sp_to_body_map, 1)
                    => segmentation.value[p] = 0

(***************************************************************************)
(* Properties of segs_to_raveler and of raveler_to_labeled_volume on the   *)
(* triple it returned (SpecBuild).                                         *)
(***************************************************************************)
Exported == pc \in {"exported", "imported"}

\* "Superpixels should not map to more than one body": the body of a voxel
\* is determined by its superpixel, and superpixel 0 lies in body 0
SuperpixelsInsideBodies ==
    /\ \A v, w \in Voxels :
            sps[v[1]][v[2]] = sps[w[1]][w[2]] => bodies[v[1]][v[2]] = bodies[w[1]][w[2]]
    /\ \A v \in Voxels : sps[v[1]][v[2]] = 0 => bodies[v[1]][v[2]] = 0

\* C5: with min_size = 0 and do_conn_comp left at its default, for
\* superpixels and bodies of one shape where no superpixel maps to more
\* than one body, the volume that raveler_to_labeled_volume decodes from
\* the triple of segs_to_raveler equals bodies at every voxel other than
\* the corner [p, 0, 0] of a plane.
C5_RoundTrip ==
    (pc = "imported" /\ min_size = 0 /\ ~do_conn_comp /\ SuperpixelsInsideBodies) =>
        /\ output_volume.error = "none"
        /\ \A v \in Voxels :
                v[2] # Corner => output_volume.value[v[1]][v[2]] = bodies[v[1]][v[2]]

\* C8: the first row of the segment_to_body table segs_to_raveler returns
\* is (0, 0), and no other row has segment 0.
C8_BackgroundRowFirst ==
    Exported =>
        LET table == raveler.segment_to_body
        IN /\ Len(table) >= 1
           /\ table[1] = <<0, 0>>
           /\ \A i \in 2 .. Len(table) : table[i][1] # 0

\* an export of bodies without background: the corners of the segment map
\* were forced to 0 over a body that is not 0, and there are other segments
C8_Witness ==
    /\ pc = "exported"
    /\ \A v \in Voxels : bodies[v[1]][v[2]] # 0
    /\ Len(raveler.segment_to_body) > 1

Ambiguous(table) ==
    \E i, j \in DOMAIN table : table[i][1] = table[j][1] /\ table[i][2] # table[j][2]

\* C9: the segment_to_body table has one body per segment; a segment seen
\* with two bodies is reported as an error by segs_to_raveler, which has no
\* error outcome and so returns no such table, and by
\* raveler_to_labeled_volume when it is given such a table.
C9_AmbiguitySurfaced ==
    /\ pc = "exported" => ~Ambiguous(raveler.segment_to_body)
    /\ pc = "imported" =>
            (Ambiguous(raveler.segment_to_body) => output_volume.error # "none")

\* C10: in the superpixel volume segs_to_raveler returns when sps_out is
\* not supplied, two distinct planes share no nonzero superpixel id.
C10_SuperpixelsPlaneUnique ==
    Exported =>
        \A i, j \in PlaneIds :
            i # j => NonZeroIds(raveler.superpixels[i])
                        \cap NonZeroIds(raveler.superpixels[j]) = {}

(***************************************************************************)
(* Degenerate inputs of apply_segmentation_map (SpecApply).                *)
(***************************************************************************)
\* C11: apply_segmentation_map does not fail on a degenerate input, an
\* empty table or an all-background label array: it returns an array, and
\* with the empty table that array is all background.
C11_DegenerateInputDecodes ==
    (/\ pc = "applied"
     /\ \/ sp_to_body_map = <<>>
        \/ \A p \in DOMAIN superpixels : superpixels[p] = 0) =>
        /\ segmentation.error = "none"
        /\ sp_to_body_map = <<>> =>
                \A p \in DOMAIN superpixels : segmentation.value[p] = 0

(***************************************************************************)
(* The sp_to_segment table of segs_to_raveler (SpecBuild).                 *)
(***************************************************************************)
\* no superpixel id of sps is seen with two body ids
NoSuperpixelSpansBodies ==
    \A v, w \in Voxels :
        (sps[v[1]][v[2]] # 0 /\ sps[v[1]][v[2]] = sps[w[1]][w[2]])
            => bodies[v[1]][v[2]] = bodies[w[1]][w[2]]

\* C12: when no superpixel of the input spans two bodies (do_conn_comp at
\* its default), every superpixel id of a plane occurs in the rows of that
\* plane of sp_to_segment with one segment id only, also when the corners
\* of the segment map were forced to 0 and those of the superpixel map were
\* not.
C12_OneSegmentPerSuperpixel ==
    (Exported /\ ~do_conn_comp /\ NoSuperpixelSpansBodies) =>
        LET table == raveler.sp_to_segment
        IN \A i, j \in DOMAIN table :
                (table[i][1] = table[j][1] /\ table[i][2] = table[j][2])
                    => table[i][3] = table[j][3]

RowSet(table) == {table[i] : i \in DOMAIN table}

\* the segment map segs_to_raveler computes from bodies, before the masking
SegmentMap == raveler_serial_section_map(bodies, min_size, do_conn_comp, TRUE)

\* the voxels that have a segment id and no superpixel id
SegmentWithoutSuperpixel(segment_map) ==
    {v \in Voxels : raveler.superpixels[v[1]][v[2]] = 0 /\ segment_map[v[1]][v[2]] # 0}

MaskedSegment(segment_map, v) ==
    IF raveler.superpixels[v[1]][v[2]] # 0 THEN segment_map[v[1]][v[2]] ELSE 0

\* C13 as stated: the rows of sp_to_segment are the distinct (plane,
\* superpixel id, masked segment id) of the voxels other than those that
\* have a segment id and no superpixel id, which contribute no row.
C13_Original ==
    Exported =>
        LET segment_map == SegmentMap
        IN RowSet(raveler.sp_to_segment) =
            {<<v[1], raveler.superpixels[v[1]][v[2]], MaskedSegment(segment_map, v)>> :
                v \in Voxels \ SegmentWithoutSuperpixel(segment_map)}

\* C13 as amended: the rows of sp_to_segment are the distinct (plane,
\* superpixel id, masked segment id) of all the voxels; a voxel that has a
\* segment id and no superpixel id contributes the row (plane, 0, 0), and
\* no row has superpixel id 0 with a segment id other than 0.
C13_RowsOfAllVoxels ==
    Exported =>
        LET segment_map == SegmentMap
        IN /\ RowSet(raveler.sp_to_segment) =
                {<<v[1], raveler.superpixels[v[1]][v[2]],
                   MaskedSegment(segment_map, v)>> : v \in Voxels}
           /\ \A v \in SegmentWithoutSuperpixel(segment_map) :
                <<v[1], 0, 0>> \in RowSet(raveler.sp_to_segment)
           /\ \A row \in RowSet(raveler.sp_to_segment) : row[2] = 0 => row[3] = 0

\* an export where the row (plane, 0, 0) of a plane comes only from voxels
\* that have a segment id and no superpixel id
C13_Witness ==
    /\ pc = "exported"
    /\ LET segment_map == SegmentMap
       IN \E v \in SegmentWithoutSuperpixel(segment_map) :
            /\ \A w \in Voxels : w[1] = v[1] => segment_map[w[1]][w[2]] # 0
            /\ <<v[1], 0, 0>> \in RowSet(raveler.sp_to_segment)

(***************************************************************************)
(* The corner repair of raveler_to_labeled_volume (SpecBuild).             *)
(***************************************************************************)
\* the volume decoded from the exported triple, before the repair
Decoded ==
    initial_output_volume(raveler.superpixels, raveler.sp_to_segment,
                          raveler.segment_to_body).value

Imported == pc = "imported" /\ output_volume.error = "none"

\* C14 as stated: when the decoded volume is 0 at the corner [p, 0, 0] of
\* every plane, the returned volume has at every corner the decoded value
\* of [p, 0, 1] and is as decoded elsewhere; when the corner of some plane
\* is not 0, the decoded volume is returned.
C14_Original ==
    Imported =>
        LET decoded == Decoded
        IN IF \A z \in PlaneIds : decoded[z][Corner] = 0
           THEN \A v \in Voxels :
                    output_volume.value[v[1]][v[2]] =
                        IF v[2] = Corner THEN decoded[v[1]][NextToCorner]
                        ELSE decoded[v[1]][v[2]]
           ELSE output_volume.value = decoded

\* C14 as amended: the corners are repaired as stated when the decoded
\* volume is 0 at the corner of every plane and at no other voxel; in every
\* other case the decoded volume is returned.
C14_RepairWhenOnlyCornersZero ==
    Imported =>
        LET decoded == Decoded
        IN IF /\ \A z \in PlaneIds : decoded[z][Corner] = 0
              /\ \A v \in Voxels : v[2] # Corner => decoded[v[1]][v[2]] # 0
           THEN \A v \in Voxels :
                    output_volume.value[v[1]][v[2]] =
                        IF v[2] = Corner THEN decoded[v[1]][NextToCorner]
                        ELSE decoded[v[1]][v[2]]
           ELSE output_volume.value = decoded

\* an import where the corners were repaired
C14_Witness ==
    /\ Imported
    /\ \A z \in PlaneIds : Decoded[z][Corner] = 0
    /\ \A z \in PlaneIds : output_volume.value[z][Corner] # 0

(***************************************************************************)
(* The start ids of serial_section_map (SpecRelabel).                      *)
(***************************************************************************)
\* the plane as label_fct relabels it and the number of ids it produces
LabelledPlane(z) == label_fct(do_conn_comp, remove_small(nd_map[z], min_size))

RECURSIVE Offset(_)
Offset(z) == IF z = 0 THEN 0 ELSE Offset(z - 1) + LabelledPlane(z - 1)[2]

\* C15: with globally_unique_ids, the ids of plane z are offset by the
\* number of ids produced in the planes before z (0 for plane 0), so that a
\* plane that is all background adds 0 to the offset of the next plane, and
\* such a plane is returned unchanged, all zeros.
C15_OffsetsAndBackgroundPlanes ==
    (Returned /\ globally_unique_ids) =>
        \A z \in PlaneIds :
            /\ \A p \in Pos :
                    LabelledPlane(z)[1][p] # 0
                        => relabeled[z][p] = LabelledPlane(z)[1][p] + Offset(z)
            /\ (\A p \in Pos : nd_map[z][p] = 0) =>
                    /\ LabelledPlane(z)[2] = 0
                    /\ \A p \in Pos : relabeled[z][p] = 0

(***************************************************************************)
(* serial_section_map with the planes labelled by independent workers, in  *)
(* any order, and the start ids added once every plane is labelled.        *)
(***************************************************************************)
\* a slip: the worker of plane z reads the plane after it
label_plane_Misplaced(m, z, size, conn) ==
    label_fct(conn, remove_small(m[(z + 1) % Cardinality(DOMAIN m)], size))

\* the step of one plane: label_fct(remove_small(nd_map[z]))
label_plane(m, z, size, conn) == label_fct(conn, remove_small(m[z], size))

\* the barrier: every plane is labelled and its number of ids is known
AllPlanesLabelled(done) == \A z \in DOMAIN done : done[z] # None

InitParallel ==
    /\ pc = "init"
    /\ nd_map \in Volumes(MaxLabel)
    /\ min_size \in 0 .. MaxMinSize
    /\ do_conn_comp \in BOOLEAN
    /\ globally_unique_ids \in BOOLEAN
    /\ relabeled = None
    /\ again = None
    /\ plane_results = [z \in PlaneIds |-> None]
    /\ sps = None /\ bodies = None /\ raveler = None /\ output_volume = None
    /\ superpixels = None /\ sp_to_body_map = None /\ segmentation = None

WorkerLabelsPlane(z) ==
    /\ pc = "init"
    /\ plane_results[z] = None
    /\ plane_results' = [plane_results EXCEPT
                        ![z] = label_plane(nd_map, z, min_size, do_conn_comp)]
    /\ UNCHANGED <<pc, nd_map, min_size, do_conn_comp, globally_unique_ids,
                   relabeled, again>>
    /\ UNCHANGED <<buildVars, applyVars>>

AddStartIds ==
    /\ pc = "init"
    /\ AllPlanesLabelled(plane_results)
    /\ LET nids_per_plane == [z \in PlaneIds |-> plane_results[z][2]]
           starts == start_ids(nids_per_plane, globally_unique_ids)
       IN relabeled' = [z \in PlaneIds |-> AddStartId(plane_results[z][1], starts[z])]
    /\ pc' = "joined"
    /\ UNCHANGED <<nd_map, min_size, do_conn_comp, globally_unique_ids, again,
                   plane_results>>
    /\ UNCHANGED <<buildVars, applyVars>>

NextParallel ==
    \/ \E z \in PlaneIds : WorkerLabelsPlane(z)
    \/ AddStartIds

SpecParallel == InitParallel /\ [][NextParallel]_vars

C17_TablesClosed ==
    /\ Exported =>
        /\ \A z \in PlaneIds : \A p \in Pos :
                \E row \in RowSet(raveler.sp_to_segment) :
                    row[1] = z /\ row[2] = raveler.superpixels[z][p]
        /\ \A row \in RowSet(raveler.sp_to_segment) :
                row[3] \in Column(raveler.segment_to_body, 1)
    /\ pc = "imported" => output_volume.error = "none"

\* an import of an export whose superpixel volume has, in one plane, both
\* id 0 and a nonzero id, the latter in a nonzero segment
C17_Witness ==
    /\ pc = "imported"
    /\ \E z \in PlaneIds :
        /\ \E p \in Pos : raveler.superpixels[z][p] = 0
        /\ \E row \in RowSet(raveler.sp_to_segment) :
                row[1] = z /\ row[2] # 0 /\ row[3] # 0

====
